---- MODULE Spec2Model ----
(***************************************************************************)
(* Model of the hot-score engine of hot-news-agent:                        *)
(*   src/src/scoring/embeddings.py  cosine_similarity                      *)
(*   src/src/scoring/hot_score.py   NewsItem, HotScoreCalculator           *)
(*                                                                         *)
(* Numbers.  Python floats are modelled in fixed point: the float 1.0 is   *)
(* the integer Scale, so 0.5 is Scale \div 2 and 0.7 is 7 * Scale \div 10. *)
(* Every operation of cosine_similarity rounds its result to the nearest   *)
(* multiple of 1/Scale, as every float operation rounds to the nearest     *)
(* float.  The fused score is kept in units of 1/(Scale*Scale), so the     *)
(* weighted sum is exact.  Instants are whole hours on one UTC time line.  *)
(*                                                                         *)
(* Calls.  Each engine operation is one action: it is taken when no call   *)
(* is pending (pc = "idle"), runs the whole method and leaves the call and *)
(* what it returned or raised in `last` (pc = "returned"); Return hands    *)
(* the result to the caller and makes the engine idle again.               *)
(***************************************************************************)
EXTENDS Integers, Sequences, FiniteSets, TLC

VARIABLES
    topic_embeddings,      \* self.topic_embeddings: list of embeddings
    published_embeddings,  \* self.published_embeddings: list of embeddings
    recent_news,           \* self.recent_news: list of NewsItem
    weights,               \* the WEIGHTS table that self.WEIGHTS resolves to
    now,                   \* the clock read by datetime.now(timezone.utc), in hours
    pc,                    \* "idle", "ranking" (rank_news in progress) or "returned"
    last                   \* the last call: operation, arguments, outcome

vars == <<topic_embeddings, published_embeddings, recent_news, weights, now, pc, last>>

engine == <<topic_embeddings, published_embeddings, recent_news, weights>>

----------------------------------------------------------------------------
(* Bounds of the model *)

\* longest vector the model enumerates
MaxDim == 2

\* the fixed-point unit: the float 1.0
Scale == 1000

----------------------------------------------------------------------------
(* Values *)

\* a Python call either returns a value or raises
Ok(v) == [err |-> "none", val |-> v]
Raise(e) == [err |-> e, val |-> 0]

\* an embedding slot: a list of numbers, or None
None == [present |-> FALSE, vec |-> <<>>]
Vec(v) == [present |-> TRUE, vec |-> v]

\* Python truthiness of an embedding slot: None and [] are both falsy
Truthy(e) == e.present /\ Len(e.vec) > 0

Comp == {-1, 0, 1}

SeqsUpTo(S, n) == UNION {[1..k -> S] : k \in 0..n}

AllVecs == {Vec(v) : v \in SeqsUpTo(Comp, MaxDim)}

Min(a, b) == IF a <= b THEN a ELSE b
Max(a, b) == IF a >= b THEN a ELSE b
Abs(a) == IF a < 0 THEN -a ELSE a

----------------------------------------------------------------------------
(* embeddings.py: cosine_similarity *)

\* sum(a * b for a, b in zip(vec1, vec2)): zip stops at the shorter list
RECURSIVE ZipDot(_, _, _)
ZipDot(v1, v2, i) ==
    IF i > Min(Len(v1), Len(v2)) THEN 0
    ELSE v1[i] * v2[i] + ZipDot(v1, v2, i + 1)

\* sum(a * a for a in vec)
RECURSIVE SumSq(_, _)
SumSq(v, i) == IF i > Len(v) THEN 0 ELSE v[i] * v[i] + SumSq(v, i + 1)

\* the largest k in lo..hi with (k/Scale)^2 * nn <= d2, by bisection
RECURSIVE Bisect(_, _, _, _)
Bisect(lo, hi, d2, nn) ==
    IF lo >= hi THEN lo
    ELSE LET mid == (lo + hi + 1) \div 2
         IN  IF mid * mid * nn <= Scale * Scale * d2
             THEN Bisect(mid, hi, d2, nn)
             ELSE Bisect(lo, mid - 1, d2, nn)

\* math.sqrt(n) for a sum of squares n, rounded to the nearest 1/Scale
Sqrt(n) ==
    LET below == Bisect(0, Scale * n, n, 1)
    IN  IF (below + 1) * (below + 1) - Scale * Scale * n
               < Scale * Scale * n - below * below
        THEN below + 1
        ELSE below

\* a / b for a >= 0 and b > 0, rounded to the nearest integer
RoundDiv(a, b) == (2 * a + b) \div (2 * b)

\* dot_product / (norm1 * norm2), both norms non-zero, computed as the code
\* computes it: the two square roots, their product and the quotient are
\* each rounded to the nearest 1/Scale, as each float operation rounds to the
\* nearest float
Quotient(dot, n1, n2) ==
    LET norm1 == Sqrt(n1)
        norm2 == Sqrt(n2)
        product == RoundDiv(norm1 * norm2, Scale)
        mag == RoundDiv(Abs(dot) * Scale * Scale, product)
    IN  IF dot < 0 THEN -mag ELSE mag

\* cosine_similarity without the norm test: dividing by a zero norm raises
cosine_similarity_nozero(vec1, vec2) ==
    IF ~vec1.present \/ ~vec2.present THEN Raise("TypeError")
    ELSE IF Len(vec1.vec) # Len(vec2.vec) THEN Raise("ValueError")
    ELSE LET dot == ZipDot(vec1.vec, vec2.vec, 1)
             n1 == SumSq(vec1.vec, 1)
             n2 == SumSq(vec2.vec, 1)
         IN  IF n1 = 0 \/ n2 = 0 THEN Raise("ZeroDivisionError")
             ELSE Ok(Quotient(dot, n1, n2))

\* cosine_similarity without the length test: zip truncates silently
cosine_similarity_nolen(vec1, vec2) ==
    IF ~vec1.present \/ ~vec2.present THEN Raise("TypeError")
    ELSE LET dot == ZipDot(vec1.vec, vec2.vec, 1)
             n1 == SumSq(vec1.vec, 1)
             n2 == SumSq(vec2.vec, 1)
         IN  IF n1 = 0 \/ n2 = 0 THEN Ok(0)
             ELSE Ok(Quotient(dot, n1, n2))

cosine_similarity(vec1, vec2) ==
    IF ~vec1.present \/ ~vec2.present THEN Raise("TypeError")   \* len(None)
    ELSE IF Len(vec1.vec) # Len(vec2.vec) THEN Raise("ValueError")
    ELSE LET dot == ZipDot(vec1.vec, vec2.vec, 1)
             n1 == SumSq(vec1.vec, 1)
             n2 == SumSq(vec2.vec, 1)
         IN  IF n1 = 0 \/ n2 = 0 THEN Ok(0)
             ELSE Ok(Quotient(dot, n1, n2))

----------------------------------------------------------------------------
(* hot_score.py: NewsItem and the five signals *)

\* the hour of the first clock reading
Now0 == 12

\* the fields of the dataclass NewsItem; summary and url are never read by the
\* engine and are left out; published_at is an hour and `aware` says whether
\* it carries zone information (tzinfo is not None)
NewsItemFields ==
    {"title", "published_at", "aware", "source", "shares", "retweets",
     "upvotes", "sentiment", "controversy", "embedding"}

NewsItem(title, published_at, aware, source, shares, retweets, upvotes, sentiment, controversy, embedding) ==
    [title |-> title, published_at |-> published_at, aware |-> aware,
     source |-> source, shares |-> shares, retweets |-> retweets,
     upvotes |-> upvotes, sentiment |-> sentiment,
     controversy |-> controversy, embedding |-> embedding]

\* class attribute WEIGHTS, in units of 1/Scale
WEIGHTS ==
    [freshness |-> 250, trend_frequency |-> 250, relevance |-> 300,
     sentiment |-> 100, uniqueness |-> 100]

SignalNames ==
    <<"freshness", "trend_frequency", "relevance", "sentiment", "uniqueness">>

\* math.exp(-hours / 12) for hours = -4 .. 24, rounded to 1/Scale
ExpTable ==
    <<1396, 1284, 1181, 1087, 1000, 920, 846, 779, 717, 659, 607, 558, 513,
      472, 435, 400, 368, 338, 311, 287, 264, 243, 223, 205, 189, 174, 160,
      147, 135>>

ExpDecay(hours) ==
    IF hours < -4 THEN ExpTable[1]
    ELSE IF hours > 24 THEN ExpTable[29]
    ELSE ExpTable[hours + 5]

\* calculate_freshness clamped to 1.0
calculate_freshness_clamped(item, t) ==
    Min(Scale, ExpDecay(t - item.published_at))

\* calculate_freshness: a naive published_at is read as UTC, so the hour is
\* the same with or without zone information; t is the clock reading
calculate_freshness(item, t) == ExpDecay(t - item.published_at)

\* VIRALITY_NORMS.get(item.source, 100)
ViralityNorm(source) ==
    CASE source = "twitter" -> 1000
      [] source = "reddit" -> 500
      [] source = "newsapi" -> 100
      [] source = "rss" -> 50
      [] OTHER -> 100

\* calculate_virality without the clamp
calculate_virality_noclamp(item) ==
    ((item.shares + item.retweets + item.upvotes) * Scale)
        \div ViralityNorm(item.source)

\* calculate_virality: min(1.0, total_engagement / norm)
calculate_virality(item) ==
    Min(Scale,
        ((item.shares + item.retweets + item.upvotes) * Scale)
            \div ViralityNorm(item.source))

\* calculate_sentiment_score: (abs(sentiment) + controversy) / 2
calculate_sentiment_score(item) ==
    (Abs(item.sentiment) + item.controversy) \div 2

\* the loop of calculate_relevance and calculate_uniqueness over a list of
\* embeddings: max_sim = max(max_sim, sim), starting from max_sim; the first
\* cosine_similarity that raises ends the loop with its exception
RECURSIVE MaxSimLoop(_, _, _, _)
MaxSimLoop(emb, embs, i, max_sim) ==
    IF i > Len(embs) THEN Ok(max_sim)
    ELSE LET sim == cosine_similarity(emb, embs[i])
         IN  IF sim.err # "none" THEN sim
             ELSE MaxSimLoop(emb, embs, i + 1, Max(max_sim, sim.val))

\* calculate_relevance with max_sim starting at -1.0: the plain maximum
calculate_relevance_plainmax(item, topics) ==
    IF ~Truthy(item.embedding) \/ Len(topics) = 0 THEN Ok(Scale \div 2)
    ELSE MaxSimLoop(item.embedding, topics, 1, -Scale)

\* calculate_relevance with `and` for `or` in the fallback test
calculate_relevance_and(item, topics) ==
    IF ~Truthy(item.embedding) /\ Len(topics) = 0 THEN Ok(Scale \div 2)
    ELSE MaxSimLoop(item.embedding, topics, 1, 0)

\* calculate_relevance without the test of item.embedding
calculate_relevance_noembtest(item, topics) ==
    IF Len(topics) = 0 THEN Ok(Scale \div 2)
    ELSE MaxSimLoop(item.embedding, topics, 1, 0)

\* calculate_relevance(item), topics being self.topic_embeddings
calculate_relevance(item, topics) ==
    IF ~Truthy(item.embedding) \/ Len(topics) = 0 THEN Ok(Scale \div 2)
    ELSE MaxSimLoop(item.embedding, topics, 1, 0)

\* 1.0 - max_sim, or the exception of the loop
OneMinus(r) == IF r.err # "none" THEN r ELSE Ok(Scale - r.val)

\* calculate_uniqueness comparing with the newest published embedding only
calculate_uniqueness_newest(item, published) ==
    IF ~Truthy(item.embedding) \/ Len(published) = 0 THEN Ok(Scale)
    ELSE OneMinus(MaxSimLoop(item.embedding,
                             <<published[Len(published)]>>, 1, 0))

\* calculate_uniqueness with max_sim starting at -1.0: one minus the plain
\* maximum
calculate_uniqueness_plainmax(item, published) ==
    IF ~Truthy(item.embedding) \/ Len(published) = 0 THEN Ok(Scale)
    ELSE OneMinus(MaxSimLoop(item.embedding, published, 1, -Scale))

\* calculate_uniqueness(item), published being self.published_embeddings
calculate_uniqueness(item, published) ==
    IF ~Truthy(item.embedding) \/ Len(published) = 0 THEN Ok(Scale)
    ELSE OneMinus(MaxSimLoop(item.embedding, published, 1, 0))

\* similarity_threshold: float = 0.7
SimilarityThreshold == 700

\* if hours_diff > 6: continue
TrendHorizon == 6

\* min(1.0, similar_count / 10.0)
TrendSaturation == 10

\* the loop of calculate_trend_frequency over self.recent_news at clock
\* reading t.  A window item without zone information is rewritten in place
\* (recent_item.published_at = ...replace(tzinfo=utc)) before its age is
\* tested, so the loop also yields the window as it leaves it; an exception
\* of cosine_similarity ends the loop with the items visited so far rewritten
RECURSIVE TrendLoop(_, _, _, _, _)
TrendLoop(item, window, i, similar_count, t) ==
    IF i > Len(window)
    THEN [result |-> Ok(Min(Scale, (similar_count * Scale) \div TrendSaturation)),
          window |-> window]
    ELSE LET recent_item == window[i]
             seen == [window EXCEPT ![i].aware = TRUE]
             hours_diff == t - recent_item.published_at
         IN  IF hours_diff > TrendHorizon
             THEN TrendLoop(item, seen, i + 1, similar_count, t)
             ELSE IF ~Truthy(recent_item.embedding)
             THEN TrendLoop(item, seen, i + 1, similar_count, t)
             ELSE LET sim == cosine_similarity(item.embedding,
                                               recent_item.embedding)
                  IN  IF sim.err # "none"
                      THEN [result |-> sim, window |-> seen]
                      ELSE TrendLoop(item, seen, i + 1,
                                     IF sim.val >= SimilarityThreshold
                                     THEN similar_count + 1
                                     ELSE similar_count, t)

\* the trend loop leaving out of the count the window items it finds without
\* zone information (it still rewrites them)
RECURSIVE TrendLoop_skipnaive(_, _, _, _, _)
TrendLoop_skipnaive(item, window, i, similar_count, t) ==
    IF i > Len(window)
    THEN [result |-> Ok(Min(Scale, (similar_count * Scale) \div TrendSaturation)),
          window |-> window]
    ELSE LET recent_item == window[i]
             seen == [window EXCEPT ![i].aware = TRUE]
             hours_diff == t - recent_item.published_at
         IN  IF ~recent_item.aware \/ hours_diff > TrendHorizon
             THEN TrendLoop_skipnaive(item, seen, i + 1, similar_count, t)
             ELSE IF ~Truthy(recent_item.embedding)
             THEN TrendLoop_skipnaive(item, seen, i + 1, similar_count, t)
             ELSE LET sim == cosine_similarity(item.embedding,
                                               recent_item.embedding)
                  IN  IF sim.err # "none"
                      THEN [result |-> sim, window |-> seen]
                      ELSE TrendLoop_skipnaive(item, seen, i + 1,
                                     IF sim.val >= SimilarityThreshold
                                     THEN similar_count + 1
                                     ELSE similar_count, t)

calculate_trend_frequency_skipnaive(item, window, t) ==
    IF ~Truthy(item.embedding) \/ Len(window) = 0
    THEN [result |-> Ok(calculate_virality(item)), window |-> window]
    ELSE TrendLoop_skipnaive(item, window, 1, 0, t)

\* the trend loop with `>=` for `>` in the horizon test: an item published
\* exactly TrendHorizon hours ago is skipped
RECURSIVE TrendLoop_strict(_, _, _, _, _)
TrendLoop_strict(item, window, i, similar_count, t) ==
    IF i > Len(window)
    THEN [result |-> Ok(Min(Scale, (similar_count * Scale) \div TrendSaturation)),
          window |-> window]
    ELSE LET recent_item == window[i]
             seen == [window EXCEPT ![i].aware = TRUE]
             hours_diff == t - recent_item.published_at
         IN  IF hours_diff >= TrendHorizon
             THEN TrendLoop_strict(item, seen, i + 1, similar_count, t)
             ELSE IF ~Truthy(recent_item.embedding)
             THEN TrendLoop_strict(item, seen, i + 1, similar_count, t)
             ELSE LET sim == cosine_similarity(item.embedding,
                                               recent_item.embedding)
                  IN  IF sim.err # "none"
                      THEN [result |-> sim, window |-> seen]
                      ELSE TrendLoop_strict(item, seen, i + 1,
                                     IF sim.val >= SimilarityThreshold
                                     THEN similar_count + 1
                                     ELSE similar_count, t)

calculate_trend_frequency_strict(item, window, t) ==
    IF ~Truthy(item.embedding) \/ Len(window) = 0
    THEN [result |-> Ok(calculate_virality(item)), window |-> window]
    ELSE TrendLoop_strict(item, window, 1, 0, t)

\* the trend loop without the horizon test: every window item is compared
RECURSIVE TrendLoop_nohorizon(_, _, _, _, _)
TrendLoop_nohorizon(item, window, i, similar_count, t) ==
    IF i > Len(window)
    THEN [result |-> Ok(Min(Scale, (similar_count * Scale) \div TrendSaturation)),
          window |-> window]
    ELSE LET recent_item == window[i]
             seen == [window EXCEPT ![i].aware = TRUE]
         IN  IF ~Truthy(recent_item.embedding)
             THEN TrendLoop_nohorizon(item, seen, i + 1, similar_count, t)
             ELSE LET sim == cosine_similarity(item.embedding,
                                               recent_item.embedding)
                  IN  IF sim.err # "none"
                      THEN [result |-> sim, window |-> seen]
                      ELSE TrendLoop_nohorizon(item, seen, i + 1,
                                     IF sim.val >= SimilarityThreshold
                                     THEN similar_count + 1
                                     ELSE similar_count, t)

\* calculate_trend_frequency counting the window items of any age
calculate_trend_frequency_nohorizon(item, window, t) ==
    IF ~Truthy(item.embedding) \/ Len(window) = 0
    THEN [result |-> Ok(calculate_virality(item)), window |-> window]
    ELSE TrendLoop_nohorizon(item, window, 1, 0, t)

\* calculate_trend_frequency adding the virality to the frequency
calculate_trend_frequency_plusvirality(item, window, t) ==
    IF ~Truthy(item.embedding) \/ Len(window) = 0
    THEN [result |-> Ok(calculate_virality(item)), window |-> window]
    ELSE LET r == TrendLoop(item, window, 1, 0, t)
         IN  IF r.result.err # "none" THEN r
             ELSE [result |-> Ok(Min(Scale, r.result.val
                                              + calculate_virality(item))),
                   window |-> r.window]

\* calculate_trend_frequency dropping the out-of-horizon items it skips
calculate_trend_frequency_purge(item, window, t) ==
    IF ~Truthy(item.embedding) \/ Len(window) = 0
    THEN [result |-> Ok(calculate_virality(item)), window |-> window]
    ELSE LET r == TrendLoop(item, window, 1, 0, t)
             InHorizon(x) == t - x.published_at <= TrendHorizon
         IN  [result |-> r.result, window |-> SelectSeq(r.window, InHorizon)]

\* calculate_trend_frequency(item), window being self.recent_news
calculate_trend_frequency(item, window, t) ==
    IF ~Truthy(item.embedding) \/ Len(window) = 0
    THEN [result |-> Ok(calculate_virality(item)), window |-> window]
    ELSE TrendLoop(item, window, 1, 0, t)

NoScores ==
    [freshness |-> 0, trend_frequency |-> 0, relevance |-> 0,
     sentiment |-> 0, uniqueness |-> 0]

\* the plain mean of the five signals, whatever the weights
WeightedSum_mean(scores, w, i) ==
    ((scores.freshness + scores.trend_frequency + scores.relevance
      + scores.sentiment + scores.uniqueness) * Scale) \div 5

\* sum(scores[k] * self.WEIGHTS[k] for k in scores), in units 1/(Scale*Scale)
RECURSIVE WeightedSum(_, _, _)
WeightedSum(scores, w, i) ==
    IF i > Len(SignalNames) THEN 0
    ELSE scores[SignalNames[i]] * w[SignalNames[i]]
             + WeightedSum(scores, w, i + 1)

\* calculate(item): the signals are evaluated in the order of the dict
\* literal; t1 is the clock read by calculate_freshness and t2 the clock read
\* by calculate_trend_frequency.  Yields the result, the window as the trend
\* loop leaves it and the local dict `scores`
calculate(item, t1, t2, topics, published, window, w) ==
    LET freshness == calculate_freshness(item, t1)
        trend == calculate_trend_frequency(item, window, t2)
        relevance == calculate_relevance(item, topics)
        sentiment == calculate_sentiment_score(item)
        uniqueness == calculate_uniqueness(item, published)
        scores == [freshness |-> freshness,
                   trend_frequency |-> trend.result.val,
                   relevance |-> relevance.val,
                   sentiment |-> sentiment,
                   uniqueness |-> uniqueness.val]
    IN  IF trend.result.err # "none"
        THEN [result |-> trend.result, window |-> trend.window,
              scores |-> NoScores]
        ELSE IF relevance.err # "none"
        THEN [result |-> relevance, window |-> trend.window,
              scores |-> NoScores]
        ELSE IF uniqueness.err # "none"
        THEN [result |-> uniqueness, window |-> trend.window,
              scores |-> NoScores]
        ELSE [result |-> Ok(WeightedSum(scores, w, 1)),
              window |-> trend.window, scores |-> scores]

\* scored.sort(key=lambda x: x[1], reverse=True).  list.sort is stable, and
\* with reverse=True it reverses the list, sorts it stably in ascending order
\* and reverses it again, which keeps equal keys in their original order.
Reverse(s) == [i \in 1..Len(s) |-> s[Len(s) + 1 - i]]

\* stable insertion into an ascending list: after every key <= x's key
InsertAsc(sorted, x) ==
    LET k == Cardinality({i \in 1..Len(sorted) : sorted[i].score <= x.score})
    IN  SubSeq(sorted, 1, k) \o <<x>> \o SubSeq(sorted, k + 1, Len(sorted))

RECURSIVE SortAsc(_, _, _)
SortAsc(s, i, acc) ==
    IF i > Len(s) THEN acc ELSE SortAsc(s, i + 1, InsertAsc(acc, s[i]))

\* the sort without reverse=True
sort_by_score_ascending(scored) == SortAsc(scored, 1, <<>>)

\* a descending order obtained as sorted(...)[::-1]: equal keys are reversed
sort_by_score_then_reversed(scored) == Reverse(SortAsc(scored, 1, <<>>))

sort_by_score_reverse(scored) == Reverse(SortAsc(Reverse(scored), 1, <<>>))

\* scored[:top_n]; a negative top_n drops the last -top_n elements
SliceTo(s, n) ==
    SubSeq(s, 1, IF n >= 0 THEN Min(n, Len(s)) ELSE Max(Len(s) + n, 0))

\* returning the (item, score) pairs themselves
ItemsOf_pairs(scored) == scored

\* [item for item, score in ...]
ItemsOf(scored) == [i \in 1..Len(scored) |-> scored[i].item]

\* the scoring of a batch that leaves out the items whose calculate raises
RECURSIVE ScoreAll_skipfailed(_, _, _, _, _, _, _, _)
ScoreAll_skipfailed(items, i, scored, t, topics, published, window, w) ==
    IF i > Len(items)
    THEN [err |-> "none", scored |-> scored, window |-> window]
    ELSE CHOOSE all \in
             {ScoreAll_skipfailed(items, i + 1,
                  IF c.result.err # "none" THEN scored
                  ELSE Append(scored, [item |-> items[i],
                                       score |-> c.result.val]),
                  t, topics, published, c.window, w) :
              c \in {calculate(items[i], t, t, topics, published, window, w)}} :
             TRUE

\* scored = [(item, self.calculate(item)) for item in items]: the items are
\* scored in input order against the window as the calls before left it; the
\* first calculate that raises ends rank_news with its exception
RECURSIVE ScoreAll(_, _, _, _, _, _, _, _)
ScoreAll(items, i, scored, t, topics, published, window, w) ==
    IF i > Len(items)
    THEN [err |-> "none", scored |-> scored, window |-> window]
    ELSE CHOOSE all \in
             {IF c.result.err # "none"
              THEN [err |-> c.result.err, scored |-> scored,
                    window |-> c.window]
              ELSE ScoreAll(items, i + 1,
                            Append(scored, [item |-> items[i],
                                            score |-> c.result.val]),
                            t, topics, published, c.window, w) :
              c \in {calculate(items[i], t, t, topics, published, window, w)}} :
             TRUE

\* rank_news(items, top_n), every clock reading of the call being t
rank_news(items, top_n, t, topics, published, window, w) ==
    CHOOSE r \in
        {[err |-> all.err,
          scored |-> all.scored,
          window |-> all.window,
          val |-> IF all.err # "none" THEN <<>>
                  ELSE ItemsOf(SliceTo(sort_by_score_reverse(all.scored),
                                       top_n))] :
         all \in {ScoreAll(items, 1, <<>>, t, topics, published, window, w)}} :
        TRUE

----------------------------------------------------------------------------
(* The inputs the model enumerates *)

\* the clock advances at most this many hours
MaxTicks == 1

\* longest list handed to the constructor as topic_embeddings
MaxTopics == 2

\* add_published is called at most this many times
MaxHist == 2

\* longest batch handed to rank_news
MaxBatch == 3

\* largest top_n handed to rank_news
MaxTopN == 2

TopicPool == {Vec(<<-1, 0>>), Vec(<<1, 1>>)}

HistPool == {Vec(<<1, 0>>), Vec(<<0, 0>>)}

CandEmbeddings == {None, Vec(<<>>), Vec(<<1, 0>>), Vec(<<0, 0>>), Vec(<<1>>)}

\* candidates for the single-signal calls and calculate
ItemPool ==
    {NewsItem("n", Now0, TRUE, "newsapi", 50, 0, 0, 500, 300, e) :
         e \in CandEmbeddings}
    \cup {NewsItem("t", Now0 - 6, FALSE, "twitter", 0, 500, 0, -200, 0, e) :
         e \in CandEmbeddings}

\* candidates for rank_news: a and b differ in the title only
RankPool ==
    {NewsItem("a", Now0 - 6, TRUE, "newsapi", 0, 0, 0, 0, 0, None),
     NewsItem("b", Now0 - 6, TRUE, "newsapi", 0, 0, 0, 0, 0, None),
     NewsItem("c", Now0 - 6, FALSE, "twitter", 0, 500, 0, 0, 0, Vec(<<1, 0>>))}

\* the batches handed to rank_news: up to MaxBatch distinct items, any order
Batches ==
    {s \in SeqsUpTo(RankPool, MaxBatch) :
        \A i \in 1..Len(s), j \in 1..Len(s) : i # j => s[i] # s[j]}

\* recent-news windows handed to the constructor
WinNear == NewsItem("w1", Now0, TRUE, "rss", 0, 0, 0, 0, 0, Vec(<<1, 0>>))
WinOld == NewsItem("w2", Now0 - 7, FALSE, "rss", 0, 0, 0, 0, 0, Vec(<<1, 0>>))
WinNoEmb == NewsItem("w3", Now0, FALSE, "rss", 0, 0, 0, 0, 0, None)

Windows == {<<>>, <<WinNear>>, <<WinNoEmb, WinOld>>}

----------------------------------------------------------------------------
(* State *)

NoCall == [op |-> "none"]

\* HotScoreCalculator(): no topics, no recent news, nothing published
InitEngine ==
    /\ topic_embeddings = <<>>
    /\ published_embeddings = <<>>
    /\ recent_news = <<>>
    /\ weights = WEIGHTS

InitCos ==
    /\ InitEngine
    /\ now = Now0
    /\ pc = "idle"
    /\ last = NoCall

\* HotScoreCalculator(topic_embeddings, recent_news): __init__ stores the two
\* lists (or [] for a missing or empty one) and starts an empty history
Init ==
    /\ topic_embeddings \in SeqsUpTo(TopicPool, MaxTopics)
    /\ recent_news \in Windows
    /\ published_embeddings = <<>>
    /\ weights = WEIGHTS
    /\ now = Now0
    /\ pc = "idle"
    /\ last = NoCall

----------------------------------------------------------------------------
(* Operations *)

\* a direct call of cosine_similarity
CosineSimilarity(vec1, vec2) ==
    /\ pc = "idle"
    /\ last' = [op |-> "cosine_similarity", vec1 |-> vec1, vec2 |-> vec2,
                result |-> cosine_similarity(vec1, vec2)]
    /\ pc' = "returned"
    /\ UNCHANGED <<engine, now>>

CalcFreshness(item) ==
    /\ pc = "idle"
    /\ last' = [op |-> "calculate_freshness", item |-> item, t |-> now,
                result |-> Ok(calculate_freshness(item, now))]
    /\ pc' = "returned"
    /\ UNCHANGED <<engine, now>>

CalcVirality(item) ==
    /\ pc = "idle"
    /\ last' = [op |-> "calculate_virality", item |-> item,
                result |-> Ok(calculate_virality(item))]
    /\ pc' = "returned"
    /\ UNCHANGED <<engine, now>>

CalcTrendFrequency(item) ==
    /\ pc = "idle"
    /\ \E r \in {calculate_trend_frequency(item, recent_news, now)} :
        /\ last' = [op |-> "calculate_trend_frequency", item |-> item,
                    t |-> now, window |-> recent_news, result |-> r.result]
        /\ recent_news' = r.window
        /\ pc' = "returned"
        /\ UNCHANGED <<topic_embeddings, published_embeddings, weights, now>>

CalcRelevance(item) ==
    /\ pc = "idle"
    /\ last' = [op |-> "calculate_relevance", item |-> item,
                result |-> calculate_relevance(item, topic_embeddings)]
    /\ pc' = "returned"
    /\ UNCHANGED <<engine, now>>

CalcSentimentScore(item) ==
    /\ pc = "idle"
    /\ last' = [op |-> "calculate_sentiment_score", item |-> item,
                result |-> Ok(calculate_sentiment_score(item))]
    /\ pc' = "returned"
    /\ UNCHANGED <<engine, now>>

CalcUniqueness(item) ==
    /\ pc = "idle"
    /\ last' = [op |-> "calculate_uniqueness", item |-> item,
                result |-> calculate_uniqueness(item, published_embeddings)]
    /\ pc' = "returned"
    /\ UNCHANGED <<engine, now>>

\* calculate(item); the clock advances by d hours between the reading of
\* calculate_freshness and the reading of calculate_trend_frequency
Calculate(item, d) ==
    /\ pc = "idle"
    /\ now + d <= Now0 + MaxTicks
    /\ \E c \in {calculate(item, now, now + d, topic_embeddings,
                            published_embeddings, recent_news, weights)} :
        /\ last' = [op |-> "calculate", item |-> item, t1 |-> now,
                    t2 |-> now + d, window |-> recent_news,
                    scores |-> c.scores, result |-> c.result]
        /\ recent_news' = c.window
        /\ now' = now + d
        /\ pc' = "returned"
        /\ UNCHANGED <<topic_embeddings, published_embeddings, weights>>

RankNews(items, top_n) ==
    /\ pc = "idle"
    /\ \E r \in {rank_news(items, top_n, now, topic_embeddings,
                            published_embeddings, recent_news, weights)} :
        /\ last' = [op |-> "rank_news", items |-> items, top_n |-> top_n,
                    t |-> now, window |-> recent_news, scored |-> r.scored,
                    err |-> r.err, val |-> r.val]
        /\ recent_news' = r.window
        /\ pc' = "returned"
        /\ UNCHANGED <<topic_embeddings, published_embeddings, weights, now>>

\* add_published that skips an embedding the history already holds
AddPublished_dedup(embedding) ==
    /\ pc = "idle"
    /\ Len(published_embeddings) < MaxHist
    /\ published_embeddings' =
           IF \E i \in 1..Len(published_embeddings) :
                  published_embeddings[i] = embedding
           THEN published_embeddings
           ELSE Append(published_embeddings, embedding)
    /\ last' = [op |-> "add_published", embedding |-> embedding,
                before |-> published_embeddings]
    /\ pc' = "returned"
    /\ UNCHANGED <<topic_embeddings, recent_news, weights, now>>

\* add_published(embedding): self.published_embeddings.append(embedding)
AddPublished(embedding) ==
    /\ pc = "idle"
    /\ Len(published_embeddings) < MaxHist
    /\ published_embeddings' = Append(published_embeddings, embedding)
    /\ last' = [op |-> "add_published", embedding |-> embedding,
                before |-> published_embeddings]
    /\ pc' = "returned"
    /\ UNCHANGED <<topic_embeddings, recent_news, weights, now>>

\* the caller replaces the topic set: scorer.topic_embeddings = [topic_embedding]
SetTopics(topic_embedding) ==
    /\ pc = "idle"
    /\ topic_embeddings' = <<topic_embedding>>
    /\ UNCHANGED <<published_embeddings, recent_news, weights, now, pc, last>>

\* an hour passes between two calls
Tick ==
    /\ pc = "idle"
    /\ now < Now0 + MaxTicks
    /\ now' = now + 1
    /\ UNCHANGED <<engine, pc, last>>

\* the caller takes the value (or the exception) of the call
Return ==
    /\ pc = "returned"
    /\ pc' = "idle"
    /\ last' = NoCall
    /\ UNCHANGED <<engine, now>>

NextCos ==
    \/ \E vec1 \in AllVecs \cup {None}, vec2 \in AllVecs \cup {None} :
           CosineSimilarity(vec1, vec2)
    \/ Return

SpecCos == InitCos /\ [][NextCos]_vars

Next ==
    \/ \E item \in ItemPool : CalcFreshness(item)
    \/ \E item \in ItemPool : CalcVirality(item)
    \/ \E item \in ItemPool : CalcTrendFrequency(item)
    \/ \E item \in ItemPool : CalcRelevance(item)
    \/ \E item \in ItemPool : CalcSentimentScore(item)
    \/ \E item \in ItemPool : CalcUniqueness(item)
    \/ \E item \in ItemPool, d \in 0..1 : Calculate(item, d)
    \/ \E items \in Batches, top_n \in -1..MaxTopN : RankNews(items, top_n)
    \/ \E embedding \in HistPool : AddPublished(embedding)
    \/ \E topic_embedding \in TopicPool : SetTopics(topic_embedding)
    \/ Tick
    \/ Return

Spec == Init /\ [][Next]_vars

\* The weight table is whatever the class attribute WEIGHTS holds when the
\* engine is built (the literal of the class, or the table of a subclass or of
\* an edited configuration); __init__ reads no weights and tests nothing.
WeightTables ==
    {WEIGHTS,
     [WEIGHTS EXCEPT !.uniqueness = 200],
     [WEIGHTS EXCEPT !.relevance = 0]}

InitCfg ==
    /\ topic_embeddings \in SeqsUpTo(TopicPool, MaxTopics)
    /\ recent_news \in Windows
    /\ published_embeddings = <<>>
    /\ weights \in WeightTables
    /\ now = Now0
    /\ pc = "idle"
    /\ last = NoCall

NextCfg ==
    \/ \E item \in ItemPool, d \in 0..1 : Calculate(item, d)
    \/ \E embedding \in HistPool : AddPublished(embedding)
    \/ Return

SpecCfg == InitCfg /\ [][NextCfg]_vars

----------------------------------------------------------------------------
(* The trend signal over long recent windows *)

\* most window items inside the horizon at every clock reading
MaxWin == 10

\* most window items published TrendHorizon hours before the first reading
MaxEdge == 1

Rep(x, n) == [i \in 1..n |-> x]

\* inside the horizon at the first clock reading, outside one hour later
WinEdge == NewsItem("w4", Now0 - 6, FALSE, "rss", 0, 0, 0, 0, 0, Vec(<<1, 0>>))

\* inside the horizon, at a right angle to <<1, 0>>
WinOther == NewsItem("w5", Now0, TRUE, "rss", 0, 0, 0, 0, 0, Vec(<<0, 1>>))

TrendTails == {<<>>, <<WinOld>>, <<WinNoEmb>>, <<WinOther>>}

TrendWindows ==
    {Rep(WinNear, a) \o Rep(WinEdge, b) \o tail :
         a \in 0..MaxWin, b \in 0..MaxEdge, tail \in TrendTails}

TrendCands ==
    {NewsItem("n", Now0, TRUE, "newsapi", 50, 0, 0, 500, 300, e) :
         e \in {None, Vec(<<1, 0>>), Vec(<<1, 1>>), Vec(<<1>>)}}

\* HotScoreCalculator(recent_news=window)
InitTrend ==
    /\ topic_embeddings = <<>>
    /\ recent_news \in TrendWindows
    /\ published_embeddings = <<>>
    /\ weights = WEIGHTS
    /\ now = Now0
    /\ pc = "idle"
    /\ last = NoCall

NextTrend ==
    \/ \E item \in TrendCands : CalcTrendFrequency(item)
    \/ \E item \in TrendCands, d \in 0..1 : Calculate(item, d)
    \/ Tick
    \/ Return

SpecTrend == InitTrend /\ [][NextTrend]_vars

----------------------------------------------------------------------------
(* The two signals that read the item alone: virality and freshness *)

\* each engagement counter takes 0..MaxSteps times its step
MaxSteps == 4

\* oldest publication, in hours before the first clock reading
MaxAge == 6

\* latest publication, in hours after the first clock reading
MaxAhead == 3

\* the four sources of VIRALITY_NORMS and one that is not in the table
Sources == {"twitter", "reddit", "newsapi", "rss", "blog"}

VirPool ==
    {NewsItem("v", Now0, TRUE, src, 25 * a, 250 * b, 125 * c, 0, 0, None) :
         src \in Sources, a \in 0..MaxSteps, b \in 0..MaxSteps,
         c \in 0..MaxSteps}

FreshPool ==
    {NewsItem("f", p, aware, "rss", 0, 0, 0, 0, 0, None) :
         p \in (Now0 - MaxAge)..(Now0 + MaxAhead), aware \in BOOLEAN}

NextSignals ==
    \/ \E item \in VirPool : CalcVirality(item)
    \/ \E item \in FreshPool : CalcFreshness(item)
    \/ Tick
    \/ Return

SpecSignals == InitCos /\ [][NextSignals]_vars

----------------------------------------------------------------------------
(* rank_news item by item, with another thread working on the same engine *)

\* The engine has no lock and takes no copy of its collections: rank_news
\* reads self.topic_embeddings, self.recent_news and
\* self.published_embeddings anew in every calculate of its list
\* comprehension, and a second thread can run between two of them.  While
\* the call is in progress pc is "ranking" and `last` holds its locals; each
\* scored pair also records the topic set and the history its calculate read.

\* two candidates that differ in the title only
ConcPool ==
    {NewsItem("x", Now0 - 6, TRUE, "newsapi", 0, 0, 0, 0, 0, Vec(<<1, 0>>)),
     NewsItem("y", Now0 - 6, TRUE, "newsapi", 0, 0, 0, 0, 0, Vec(<<1, 0>>))}

ConcBatches ==
    {s \in SeqsUpTo(ConcPool, MaxBatch) :
        \A i \in 1..Len(s), j \in 1..Len(s) : i # j => s[i] # s[j]}

\* rank_news is entered
RankBegin(items, top_n) ==
    /\ pc = "idle"
    /\ pc' = "ranking"
    /\ last' = [op |-> "rank_news", items |-> items, top_n |-> top_n,
                t |-> now, window |-> recent_news, scored |-> <<>>,
                err |-> "none", val |-> <<>>]
    /\ UNCHANGED <<engine, now>>

\* (item, self.calculate(item)) for the next item of the batch
RankScoreNext ==
    /\ pc = "ranking"
    /\ Len(last.scored) < Len(last.items)
    /\ \E c \in {calculate(last.items[Len(last.scored) + 1], now, now,
                            topic_embeddings, published_embeddings,
                            recent_news, weights)} :
        /\ last' = IF c.result.err # "none"
                   THEN [last EXCEPT !.err = c.result.err]
                   ELSE [last EXCEPT !.scored =
                            Append(@, [item |-> last.items[Len(last.scored) + 1],
                                       score |-> c.result.val,
                                       seen |-> <<topic_embeddings,
                                                  published_embeddings>>])]
        /\ pc' = IF c.result.err # "none" THEN "returned" ELSE "ranking"
        /\ recent_news' = c.window
        /\ UNCHANGED <<topic_embeddings, published_embeddings, weights, now>>

\* the sort, the slice and the return
RankEnd ==
    /\ pc = "ranking"
    /\ Len(last.scored) = Len(last.items)
    /\ last' = [last EXCEPT !.val =
                    ItemsOf(SliceTo(sort_by_score_reverse(last.scored),
                                    last.top_n))]
    /\ pc' = "returned"
    /\ UNCHANGED <<engine, now>>

\* add_published(embedding) in a second thread while rank_news is running
ConcurrentAddPublished(embedding) ==
    /\ pc = "ranking"
    /\ Len(published_embeddings) < MaxHist
    /\ published_embeddings' = Append(published_embeddings, embedding)
    /\ UNCHANGED <<topic_embeddings, recent_news, weights, now, pc, last>>

\* scorer.topic_embeddings = [topic_embedding] in a second thread while
\* rank_news is running
ConcurrentSetTopics(topic_embedding) ==
    /\ pc = "ranking"
    /\ topic_embeddings' = <<topic_embedding>>
    /\ UNCHANGED <<published_embeddings, recent_news, weights, now, pc, last>>

NextConc ==
    \/ \E items \in ConcBatches, top_n \in -1..MaxTopN : RankBegin(items, top_n)
    \/ RankScoreNext
    \/ RankEnd
    \/ \E embedding \in HistPool : ConcurrentAddPublished(embedding)
    \/ \E topic_embedding \in TopicPool : ConcurrentSetTopics(topic_embedding)
    \/ \E embedding \in HistPool : AddPublished(embedding)
    \/ Return

SpecConc == Init /\ [][NextConc]_vars

----------------------------------------------------------------------------
(* The uniqueness signal while the history grows *)

\* embeddings handed to add_published: every direction of the plane the
\* candidates can be near to, opposite to or at a right angle with, and the
\* zero vector
GrowPool ==
    {Vec(<<1, 0>>), Vec(<<1, 1>>), Vec(<<0, 1>>), Vec(<<-1, 0>>),
     Vec(<<0, 0>>)}

UniqCands ==
    {NewsItem("u", Now0, TRUE, "rss", 0, 0, 0, 0, 0, e) :
         e \in {None, Vec(<<1, 0>>), Vec(<<1, 1>>), Vec(<<0, 0>>),
                Vec(<<1>>)}}

NextGrow ==
    \/ \E embedding \in GrowPool : AddPublished(embedding)
    \/ \E item \in UniqCands : CalcUniqueness(item)
    \/ Return

SpecGrow == InitCos /\ [][NextGrow]_vars

----------------------------------------------------------------------------
(* rank_news on batches that hold an item the engine cannot score *)

\* a candidate without an embedding, one with an embedding of the engine's
\* dimension and one with an embedding of another length
ErrPool ==
    {NewsItem("a", Now0 - 6, TRUE, "newsapi", 0, 0, 0, 0, 0, None),
     NewsItem("c", Now0 - 6, FALSE, "twitter", 0, 500, 0, 0, 0, Vec(<<1, 0>>)),
     NewsItem("m", Now0, TRUE, "rss", 25, 0, 0, 0, 0, Vec(<<1>>))}

ErrBatches ==
    {s \in SeqsUpTo(ErrPool, MaxBatch) :
        \A i \in 1..Len(s), j \in 1..Len(s) : i # j => s[i] # s[j]}

NextBatch ==
    \/ \E items \in ErrBatches, top_n \in -1..MaxTopN : RankNews(items, top_n)
    \/ \E embedding \in HistPool : AddPublished(embedding)
    \/ Return

SpecBatch == Init /\ [][NextBatch]_vars

----------------------------------------------------------------------------
(* The edge of the trend horizon *)

\* windows of one item similar to the candidates, published at every hour
\* from beyond the horizon to MaxAhead hours after the first clock reading,
\* with and without zone information
HorizonWindows ==
    {<<NewsItem("h", p, aware, "rss", 0, 0, 0, 0, 0, Vec(<<1, 0>>))>> :
         p \in (Now0 - TrendHorizon - MaxAhead)..(Now0 + MaxAhead),
         aware \in BOOLEAN}

HorizonCands ==
    {NewsItem("n", Now0, TRUE, "newsapi", 50, 0, 0, 500, 300, e) :
         e \in {Vec(<<1, 0>>), Vec(<<1, 1>>), Vec(<<0, 1>>)}}

InitHorizon ==
    /\ topic_embeddings = <<>>
    /\ recent_news \in HorizonWindows
    /\ published_embeddings = <<>>
    /\ weights = WEIGHTS
    /\ now = Now0
    /\ pc = "idle"
    /\ last = NoCall

NextHorizon ==
    \/ \E item \in HorizonCands : CalcTrendFrequency(item)
    \/ Tick
    \/ Return

SpecHorizon == InitHorizon /\ [][NextHorizon]_vars

----------------------------------------------------------------------------
(* Properties of cosine_similarity, checked under SpecCos *)

CosCall == pc = "returned" /\ last.op = "cosine_similarity"

CosOnVectors == CosCall /\ last.vec1.present /\ last.vec2.present

ZeroNorm(e) == SumSq(e.vec, 1) = 0

\* C5: cosine_similarity raises the dimension-mismatch error (ValueError) for
\* every pair of vectors of unequal length; it never returns a value for them,
\* so none computed over a truncated prefix of the longer vector.
C5_MismatchRaises ==
    (CosOnVectors /\ Len(last.vec1.vec) # Len(last.vec2.vec))
        => last.result = Raise("ValueError")

C5_Witness ==
    /\ CosOnVectors
    /\ last.vec1 = Vec(<<1, 0>>)
    /\ last.vec2 = Vec(<<1>>)
    /\ last.result.err = "ValueError"

\* C6 as claimed: every call in which at least one argument has zero norm
\* returns exactly 0.0 and raises nothing.
C6_ZeroNormAlwaysZero ==
    (CosOnVectors /\ (ZeroNorm(last.vec1) \/ ZeroNorm(last.vec2)))
        => last.result = Ok(0)

\* C6 amended: when the two vectors have the same length and at least one has
\* zero norm, the call returns exactly 0.0 and raises nothing (with unequal
\* lengths the length test comes first and the call raises).
C6_ZeroNormEqualLenZero ==
    (/\ CosOnVectors
     /\ Len(last.vec1.vec) = Len(last.vec2.vec)
     /\ (ZeroNorm(last.vec1) \/ ZeroNorm(last.vec2)))
        => last.result = Ok(0)

C6_Witness ==
    /\ CosOnVectors
    /\ last.vec1 = Vec(<<0, 0>>)
    /\ last.vec2 = Vec(<<1, -1>>)
    /\ last.result = Ok(0)

----------------------------------------------------------------------------
(* Properties of rank_news, checked under Spec *)

RankReturned ==
    pc = "returned" /\ last.op = "rank_news" /\ last.err = "none"

\* the one-to-one maps from the positions of a result of length k to the
\* positions of a batch of length n
Injections(k, n) ==
    {p \in [1..k -> 1..n] : \A i, j \in 1..k : i # j => p[i] # p[j]}

LeftOut(p, k, n) == (1..n) \ {p[i] : i \in 1..k}

\* C1: for every batch and every top_n >= 0, rank_news returns exactly
\* min(top_n, len(items)) elements of the batch, in descending order of the
\* fused score the call computed for them: every returned item scores at
\* least as high as every item after it and as every item left out; so the
\* whole batch is returned when top_n >= len(items) and nothing when top_n = 0.
C1_TopNDescending ==
    (RankReturned /\ last.top_n >= 0) =>
        LET n == Len(last.items)
            k == Min(last.top_n, n)
        IN  /\ Len(last.val) = k
            /\ Len(last.scored) = n
            /\ \A i \in 1..n : last.scored[i].item = last.items[i]
            /\ \E p \in Injections(k, n) :
                   /\ \A i \in 1..k : last.val[i] = last.items[p[i]]
                   /\ \A i, j \in 1..k :
                          i < j => last.scored[p[i]].score
                                       >= last.scored[p[j]].score
                   /\ \A i \in 1..k : \A j \in LeftOut(p, k, n) :
                          last.scored[p[i]].score >= last.scored[j].score

C1_Witness ==
    /\ RankReturned
    /\ last.top_n = 2
    /\ Len(last.items) = 3
    /\ last.scored[1].score < last.scored[2].score
    /\ last.scored[3].score <= last.scored[1].score
    /\ last.val = <<last.items[2], last.items[1]>>

\* C2: rank_news is stable: of two items of the batch with equal fused
\* scores, the one that comes first in the batch comes first in the result,
\* and is the one returned when only one of them is.
C2_StableOnTies ==
    RankReturned =>
        LET n == Len(last.items)
            k == Len(last.val)
        IN  \E p \in Injections(k, n) :
                /\ \A i \in 1..k : last.val[i] = last.items[p[i]]
                /\ \A i, j \in 1..k :
                       (i < j /\ last.scored[p[i]].score
                                     = last.scored[p[j]].score)
                           => p[i] < p[j]
                /\ \A i \in 1..k : \A j \in LeftOut(p, k, n) :
                       last.scored[p[i]].score = last.scored[j].score
                           => p[i] < j

C2_Witness ==
    /\ RankReturned
    /\ Len(last.items) = 3
    /\ last.items[1].title = "b"
    /\ last.items[2].title = "c"
    /\ last.items[3].title = "a"
    /\ last.scored[1].score = last.scored[3].score
    /\ last.scored[2].score < last.scored[1].score
    /\ last.val = <<last.items[1], last.items[3]>>

----------------------------------------------------------------------------
(* The weight table, checked under SpecCfg *)

CalculateReturned ==
    pc = "returned" /\ last.op = "calculate" /\ last.result.err = "none"

SumOfWeights(w) ==
    w.freshness + w.trend_frequency + w.relevance + w.sentiment + w.uniqueness

\* C4: a weight table that does not sum to 1.0 is rejected when the engine is
\* built, so no calculate call runs with weights that do not sum to 1.0.
C4_WeightsSumToOne == CalculateReturned => SumOfWeights(weights) = Scale

----------------------------------------------------------------------------
(* Properties of the signals, checked under Spec *)

Returned(op) == pc = "returned" /\ last.op = op

\* C7: for an item without an embedding (None, or the empty list, which the
\* engine treats alike), calculate, calculate_relevance, calculate_uniqueness
\* and calculate_trend_frequency never raise, whatever the topic set, the
\* recent window (window items without an embedding included) and the
\* published history hold; the signals take their fallback values: relevance
\* 0.5, uniqueness 1.0, trend the virality of the item.
C7_NoEmbeddingNeverRaises ==
    /\ (Returned("calculate_relevance") /\ ~Truthy(last.item.embedding))
           => last.result = Ok(Scale \div 2)
    /\ (Returned("calculate_uniqueness") /\ ~Truthy(last.item.embedding))
           => last.result = Ok(Scale)
    /\ (Returned("calculate_trend_frequency") /\ ~Truthy(last.item.embedding))
           => last.result = Ok(calculate_virality(last.item))
    /\ (Returned("calculate") /\ ~Truthy(last.item.embedding))
           => /\ last.result.err = "none"
              /\ last.scores.relevance = Scale \div 2
              /\ last.scores.uniqueness = Scale
              /\ last.scores.trend_frequency = calculate_virality(last.item)

C7_Witness ==
    /\ Returned("calculate")
    /\ last.item.embedding = None
    /\ topic_embeddings = <<Vec(<<-1, 0>>), Vec(<<1, 1>>)>>
    /\ published_embeddings = <<Vec(<<1, 0>>), Vec(<<0, 0>>)>>
    /\ Len(recent_news) = 2
    /\ ~Truthy(recent_news[1].embedding)
    /\ last.result.err = "none"

\* C8: calculate_relevance returns exactly 0.5 whenever the topic set is
\* empty or the item's embedding is absent (None or empty), whatever the other
\* fields of the item, the recent window and the published history are.
C8_RelevanceDefault ==
    (/\ Returned("calculate_relevance")
     /\ (Len(topic_embeddings) = 0 \/ ~Truthy(last.item.embedding)))
        => last.result = Ok(Scale \div 2)

C8_Witness ==
    /\ Returned("calculate_relevance")
    /\ Len(topic_embeddings) = 0
    /\ last.item.embedding = Vec(<<1, 0>>)
    /\ Len(published_embeddings) > 0
    /\ Len(recent_news) > 0
    /\ last.result = Ok(Scale \div 2)

SameLength(emb, embs) ==
    \A i \in 1..Len(embs) : Len(embs[i].vec) = Len(emb.vec)

\* the greatest cosine similarity of emb to a member of the set of embs
GreatestCosine(emb, embs) ==
    LET sims == {cosine_similarity(emb, embs[i]).val : i \in 1..Len(embs)}
    IN  CHOOSE m \in sims : \A x \in sims : x <= m

\* C9 as claimed: with an embedding and a non-empty topic set,
\* calculate_relevance returns the maximum cosine similarity between the
\* item's embedding and any topic vector, also when every similarity is
\* negative.
C9_RelevanceIsMaximum ==
    (/\ Returned("calculate_relevance")
     /\ Truthy(last.item.embedding)
     /\ Len(topic_embeddings) > 0
     /\ last.result.err = "none")
        => last.result.val = GreatestCosine(last.item.embedding,
                                            topic_embeddings)

\* C9 amended: with a non-empty embedding and a non-empty topic set whose
\* vectors all have the embedding's length, calculate_relevance returns the
\* larger of 0.0 and the maximum cosine similarity between the embedding and
\* any topic vector (0.0 when every similarity is negative); the value
\* depends on the set of topic vectors only, not on their order or on
\* duplicates.  With a topic vector of another length the call raises.
C9_RelevanceIsClampedMaximum ==
    (/\ Returned("calculate_relevance")
     /\ Truthy(last.item.embedding)
     /\ Len(topic_embeddings) > 0)
        => IF SameLength(last.item.embedding, topic_embeddings)
           THEN last.result =
                    Ok(Max(0, GreatestCosine(last.item.embedding,
                                             topic_embeddings)))
           ELSE last.result = Raise("ValueError")

C9_Witness ==
    /\ Returned("calculate_relevance")
    /\ last.item.embedding = Vec(<<1, 0>>)
    /\ topic_embeddings = <<Vec(<<1, 1>>), Vec(<<-1, 0>>)>>
    /\ last.result = Ok(707)

\* C10 as claimed: calculate_uniqueness returns 1.0 on an empty published
\* history, and 0.0 for every candidate whose embedding was handed to
\* add_published before, whatever the embedding and the rest of the history.
C10_PublishedIsNotUnique ==
    Returned("calculate_uniqueness") =>
        /\ Len(published_embeddings) = 0 => last.result = Ok(Scale)
        /\ (/\ last.item.embedding.present
            /\ \E i \in 1..Len(published_embeddings) :
                   published_embeddings[i] = last.item.embedding)
               => last.result = Ok(0)

\* C10 amended: calculate_uniqueness returns exactly 1.0 on an empty published
\* history; after add_published(e), a later candidate whose embedding is
\* identical to e has uniqueness 0.0 provided e has non-zero norm and every
\* published embedding has e's length (for an empty or zero-norm e the
\* uniqueness stays 1.0 or is decided by the other entries, and with an entry
\* of another length the call raises).
C10_PublishedNonZeroIsNotUnique ==
    Returned("calculate_uniqueness") =>
        /\ Len(published_embeddings) = 0 => last.result = Ok(Scale)
        /\ (/\ last.item.embedding.present
            /\ ~ZeroNorm(last.item.embedding)
            /\ SameLength(last.item.embedding, published_embeddings)
            /\ \E i \in 1..Len(published_embeddings) :
                   published_embeddings[i] = last.item.embedding)
               => last.result = Ok(0)

C10_Witness ==
    /\ Returned("calculate_uniqueness")
    /\ last.item.embedding = Vec(<<1, 0>>)
    /\ published_embeddings = <<Vec(<<1, 0>>), Vec(<<0, 0>>)>>
    /\ last.result = Ok(0)

----------------------------------------------------------------------------
(* Properties of the trend signal, checked under SpecTrend *)

\* the window items that count for a candidate at instant t: not older than
\* 6 hours, carrying an embedding, with a cosine of at least 0.7
SimilarInHorizon(item, window, t) ==
    {i \in 1..Len(window) :
        /\ t - window[i].published_at <= 6
        /\ Truthy(window[i].embedding)
        /\ cosine_similarity(item.embedding, window[i].embedding).val
               >= (7 * Scale) \div 10}

\* C11: when calculate_trend_frequency returns for a candidate with an
\* embedding and a non-empty window, its value is 1.0 if at least 10 window
\* items inside the 6-hour horizon that carry an embedding reach the
\* similarity threshold, and count/10 below that; items older than 6 hours
\* are not in the count, however similar they are.
C11_TrendSaturates ==
    (/\ Returned("calculate_trend_frequency")
     /\ Truthy(last.item.embedding)
     /\ Len(last.window) > 0
     /\ last.result.err = "none")
        => LET n == Cardinality(SimilarInHorizon(last.item, last.window,
                                                 last.t))
           IN  /\ n >= 10 => last.result.val = Scale
               /\ n < 10 => last.result.val = (n * Scale) \div 10

C11_Witness ==
    /\ Returned("calculate_trend_frequency")
    /\ last.item.embedding = Vec(<<1, 0>>)
    /\ Len(last.window) = 10
    /\ last.window[10].published_at < last.t - 6
    /\ last.window[10].embedding = last.item.embedding
    /\ Cardinality(SimilarInHorizon(last.item, last.window, last.t)) = 9
    /\ last.result = Ok(900)

\* the item with its three engagement counters at zero
NoEngagement(item) ==
    [item EXCEPT !.shares = 0, !.retweets = 0, !.upvotes = 0]

\* C12: calculate_trend_frequency returns exactly calculate_virality(item)
\* whenever the item has no embedding (None or empty) or the recent window is
\* empty; in every other case its outcome does not depend on the engagement
\* counters: it is the outcome for the same item with the counters at zero.
C12_FallbackIsVirality ==
    Returned("calculate_trend_frequency") =>
        IF ~Truthy(last.item.embedding) \/ Len(last.window) = 0
        THEN last.result = Ok(calculate_virality(last.item))
        ELSE last.result =
                 calculate_trend_frequency(NoEngagement(last.item),
                                           last.window, last.t).result

C12_Witness ==
    /\ Returned("calculate_trend_frequency")
    /\ last.item.embedding = None
    /\ last.item.shares = 50
    /\ Len(last.window) = 11
    /\ last.result = Ok(500)

----------------------------------------------------------------------------
(* Properties of virality and freshness, checked under SpecSignals *)

\* C13: calculate_virality is min(1, (shares + retweets + upvotes) / norm)
\* with norm 1000 for twitter, 500 for reddit, 100 for newsapi, 50 for rss and
\* 100 for any other source; for non-negative counters it lies in [0, 1];
\* twitter with 500 retweets and rss with 25 shares both give 0.5.  The
\* quotient is kept to 1/Scale, truncated.
C13_ViralityNormalised ==
    Returned("calculate_virality") =>
        LET e == last.item.shares + last.item.retweets + last.item.upvotes
            src == last.item.source
            norm == IF src = "twitter" THEN 1000
                    ELSE IF src = "reddit" THEN 500
                    ELSE IF src = "rss" THEN 50
                    ELSE 100
            v == last.result.val
        IN  /\ last.result.err = "none"
            /\ e >= norm => v = Scale
            /\ e < norm => (v * norm <= e * Scale /\ e * Scale < (v + 1) * norm)
            /\ e >= 0 => (0 <= v /\ v <= Scale)
            /\ (src = "twitter" /\ e = 500) => v = Scale \div 2
            /\ (src = "rss" /\ e = 25) => v = Scale \div 2

C13_Witness ==
    /\ Returned("calculate_virality")
    /\ last.item.source = "blog"
    /\ last.item.shares = 25
    /\ last.item.retweets = 0
    /\ last.item.upvotes = 125
    /\ last.result = Ok(Scale)

\* the same item published h hours earlier
Earlier(item, h) == [item EXCEPT !.published_at = @ - h]

\* C19: calculate_freshness is strictly decreasing in the time elapsed since
\* publication (an item published an hour earlier scores strictly less, and
\* freshness(p) > freshness(p - 6h) > freshness(p - 12h)), is 1.0 at zero
\* elapsed time, below 1 for a past instant and above 1 for a future one; a
\* timestamp without zone information gives the value of the same instant in
\* UTC and never an error.
C19_FreshnessDecays ==
    Returned("calculate_freshness") =>
        LET item == last.item
            hours == last.t - item.published_at
            v == last.result.val
        IN  /\ last.result.err = "none"
            /\ hours = 0 => v = Scale
            /\ hours > 0 => v < Scale
            /\ hours < 0 => v > Scale
            /\ v > calculate_freshness(Earlier(item, 1), last.t)
            /\ v > calculate_freshness(Earlier(item, 6), last.t)
            /\ calculate_freshness(Earlier(item, 6), last.t)
                   > calculate_freshness(Earlier(item, 12), last.t)
            /\ v = calculate_freshness([item EXCEPT !.aware = ~@], last.t)

C19_Witness ==
    /\ Returned("calculate_freshness")
    /\ ~last.item.aware
    /\ last.item.published_at = last.t + 2
    /\ last.result = Ok(1181)

----------------------------------------------------------------------------
(* Properties of the engine-held collections, checked under Spec *)

IsPrefix(s, t) == Len(s) <= Len(t) /\ SubSeq(t, 1, Len(s)) = s

\* a step that runs the operation op from call to return
CallOf(op) == pc = "idle" /\ pc' = "returned" /\ last'.op = op

\* C14: the published history is append-only: in every step of the engine
\* the history before the step is a prefix of the history after it (its
\* length never decreases, its entries never change or reorder), and every
\* add_published step appends exactly its argument at the end, also when an
\* identical embedding is already in the history.
C14_HistoryAppendOnly ==
    [][/\ IsPrefix(published_embeddings, published_embeddings')
       /\ CallOf("add_published") =>
              published_embeddings' =
                  Append(published_embeddings, last'.embedding)]_vars

C14_Witness ==
    /\ Returned("add_published")
    /\ last.embedding = Vec(<<1, 0>>)
    /\ last.before = <<Vec(<<1, 0>>)>>
    /\ published_embeddings = <<Vec(<<1, 0>>), Vec(<<1, 0>>)>>

\* the operations that score: calculate, rank_news and the calculate_* signals
ScoringOps ==
    {"calculate", "rank_news", "calculate_freshness", "calculate_virality",
     "calculate_trend_frequency", "calculate_relevance",
     "calculate_sentiment_score", "calculate_uniqueness"}

\* the scoring operations that walk the recent window
WindowOps == {"calculate", "rank_news", "calculate_trend_frequency"}

\* C15 as claimed: items are immutable for the duration of scoring: when a
\* call of calculate, rank_news or calculate_trend_frequency returns or
\* raises, every item of the recent window has the fields it had when the call
\* began, the publication timestamp of an item without zone information
\* included.
C15_ItemsImmutable ==
    (pc = "returned" /\ last.op \in WindowOps) => recent_news = last.window

\* the two windows hold the same items in the same order; the zone
\* information of a timestamp is not compared
SameMembers(w1, w2) ==
    /\ Len(w1) = Len(w2)
    /\ \A i \in 1..Len(w1) : [w2[i] EXCEPT !.aware = w1[i].aware] = w1[i]

\* C16: add_published is the only engine operation that changes an
\* engine-held collection: every step that runs calculate, rank_news or a
\* calculate_* function leaves the topic set and the published history as
\* they were and keeps the members of the recent window and their order
\* (items outside the horizon are skipped, not removed; the scored items are
\* added to no collection), and the history changes in add_published steps
\* only.
C16_ScoringKeepsCollections ==
    [][/\ (pc = "idle" /\ pc' = "returned" /\ last'.op \in ScoringOps) =>
              /\ topic_embeddings' = topic_embeddings
              /\ published_embeddings' = published_embeddings
              /\ SameMembers(recent_news, recent_news')
       /\ published_embeddings' # published_embeddings =>
              CallOf("add_published")]_vars

C16_Witness ==
    /\ Returned("calculate_trend_frequency")
    /\ Truthy(last.item.embedding)
    /\ last.result.err = "none"
    /\ Len(recent_news) = 2
    /\ recent_news[2].published_at < last.t - 6
    /\ Len(topic_embeddings) = 2
    /\ Len(published_embeddings) = 2

----------------------------------------------------------------------------
(* Properties of calculate *)

InRange(item) ==
    /\ item.shares >= 0 /\ item.retweets >= 0 /\ item.upvotes >= 0
    /\ -Scale <= item.sentiment /\ item.sentiment <= Scale
    /\ 0 <= item.controversy /\ item.controversy <= Scale

\* the item's embedding, if it has one, has the one dimension of the
\* embeddings the engine holds
FixedDimension(item, topics, published, window) ==
    Truthy(item.embedding) =>
        /\ SameLength(item.embedding, topics)
        /\ SameLength(item.embedding, published)
        /\ \A i \in 1..Len(window) :
               Truthy(window[i].embedding) =>
                   Len(window[i].embedding.vec) = Len(item.embedding.vec)

----------------------------------------------------------------------------
(* Properties of concurrent use, checked under SpecConc *)

\* C20 as claimed: each scoring batch is a snapshot read of the engine: when
\* add_published or a replacement of the topic set runs in another thread
\* during a rank_news call, every item of the batch is still scored against
\* the same topic set and the same published history.
C20_BatchIsSnapshotRead ==
    (pc = "returned" /\ last.op = "rank_news") =>
        \A i \in 1..Len(last.scored), j \in 1..Len(last.scored) :
            last.scored[i].seen = last.scored[j].seen

\* two items that differ in the title only, ranked in one batch with
\* different scores because the history grew between their two calculate calls
C20_TornBatch ==
    /\ pc = "returned"
    /\ last.op = "rank_news"
    /\ Len(last.scored) = 2
    /\ last.scored[1].seen # last.scored[2].seen
    /\ last.scored[1].score # last.scored[2].score

----------------------------------------------------------------------------
(* Properties of the growing history, checked under SpecGrow *)

----------------------------------------------------------------------------
(* Properties of rank_news on error, checked under SpecBatch *)

\* the outcome of scoring items[i] alone against the engine
ScoredAlone(items, i) ==
    calculate(items[i], now, now, topic_embeddings, published_embeddings,
              recent_news, weights).result

\* C22: rank_news is all-or-nothing on error: in every step that runs
\* rank_news, if scoring any one item of the batch raises, the call raises
\* that error for the whole batch and returns no ranking, partial or other,
\* and otherwise it returns a ranking; in both cases the topic set and the
\* published history are exactly as they were before the call.
C22_RankAllOrNothing ==
    [][CallOf("rank_news") =>
           LET items == last'.items
               failing == {i \in 1..Len(items) :
                              ScoredAlone(items, i).err # "none"}
           IN  /\ failing # {} =>
                      /\ \E i \in failing :
                             last'.err = ScoredAlone(items, i).err
                      /\ last'.val = <<>>
               /\ failing = {} =>
                      /\ last'.err = "none"
                      /\ Len(last'.scored) = Len(items)
               /\ topic_embeddings' = topic_embeddings
               /\ published_embeddings' = published_embeddings]_vars

C22_Witness ==
    /\ pc = "returned"
    /\ last.op = "rank_news"
    /\ last.top_n = 2
    /\ Len(last.items) = 3
    /\ last.items[3].embedding = Vec(<<1>>)
    /\ Len(last.scored) = 2
    /\ last.err = "ValueError"
    /\ last.val = <<>>
    /\ Len(topic_embeddings) = 2
    /\ Len(published_embeddings) = 2

----------------------------------------------------------------------------
(* Properties of the horizon edge, checked under SpecHorizon *)

\* C23: a recent-window item is inside the trend horizon exactly when
\* (now - published_at) <= 6 hours: for a window of one item that reaches the
\* similarity threshold against the candidate, the trend is 0.1 when the item
\* was published exactly 6 hours ago, less than 6 hours ago or in the future
\* (negative elapsed time), and 0.0 when it was published more than 6 hours
\* ago; for an item below the threshold it is 0.0 at every age.
C23_HorizonIsInclusive ==
    (/\ Returned("calculate_trend_frequency")
     /\ Truthy(last.item.embedding)
     /\ Len(last.window) = 1)
        => LET hours == last.t - last.window[1].published_at
               sim == cosine_similarity(last.item.embedding,
                                        last.window[1].embedding).val
               counted == Scale \div 10
           IN  /\ last.result.err = "none"
               /\ (sim >= (7 * Scale) \div 10 /\ hours = 6) =>
                      last.result.val = counted
               /\ (sim >= (7 * Scale) \div 10 /\ hours < 6) =>
                      last.result.val = counted
               /\ (sim >= (7 * Scale) \div 10 /\ hours > 6) =>
                      last.result.val = 0
               /\ sim < (7 * Scale) \div 10 => last.result.val = 0

C23_Witness ==
    /\ Returned("calculate_trend_frequency")
    /\ last.item.embedding = Vec(<<1, 1>>)
    /\ Len(last.window) = 1
    /\ ~last.window[1].aware
    /\ last.t - last.window[1].published_at = 6
    /\ last.result = Ok(100)

====
